---- MODULE Spec2Model ----
(***************************************************************************)
(* A model of arg_pos.split (src/arg_split.py): the three-state scanner    *)
(* (SPACE, WORD, QUOTES) that cuts a line into words, and _make_word, the  *)
(* decoder of backslash escapes that is applied to every raw span.         *)
(*                                                                         *)
(* A Python string is a sequence of one-character strings.  Indices are    *)
(* 0-based as in the source: At(s, k) is s[k], Slice(s, b, e) is s[b:e].   *)
(* One action is one iteration of the scan loop of split (one call of a    *)
(* _process_*_state function), and Finish is the code after the loop.      *)
(***************************************************************************)
EXTENDS Integers, Sequences, FiniteSets

\* ------------------------------------------------------------- bounds
\* The longest input line the model scans.
MaxLen == 6
\* The round-trip property: how many words are joined, and how long each is.
MaxWords == 3
MaxWordLen == 2

\* --------------------------------------------------------- characters
Quote == "\""
Backslash == "\\"
\* Two of the characters str.isspace accepts.
Whitespace == {" ", "\t"}
\* A character that is neither whitespace, a quote nor a backslash.
Letters == {"a"}
\* The characters the scanned lines are made of: one of each class the code
\* tells apart.
Alphabet == Letters \cup {" ", Quote, Backslash}

isspace(c) == c \in Whitespace

\* Every line of at most n characters.
Lines(n) == UNION {[1..k -> Alphabet] : k \in 0..n}

\* ------------------------------------------------------ python strings
At(s, k) == s[k + 1]
Slice(s, b, e) == SubSeq(s, b + 1, e)

\* str.find(ch, start): the least index >= start that holds ch, or -1.
find(word, ch, start) ==
    LET hits == {k \in start..(Len(word) - 1) : At(word, k) = ch}
    IN  IF hits = {} THEN -1
        ELSE CHOOSE k \in hits : \A j \in hits : k <= j

\* ------------------------------------------------------------- errors
\* begin_word = None
None == -1

\* An exception: its class, the fixed part of its message, and the
\* character and the index its message is formatted with (if any).
Raise(cls, msg, ch, pos) == [cls |-> cls, msg |-> msg, ch |-> ch, pos |-> pos]
NoError == Raise("", "", "", -1)

InvalidAcceptError(ch, pos) ==
    Raise("InvalidAcceptError", "Expected a valid word character", ch, pos)
QuoteErrorNoSpace ==
    Raise("QuoteError", "A space must follow quotes before beginning the next word.", "", -1)
QuoteErrorNotClosed == Raise("QuoteError", "Quote was not closed.", "", -1)
EscapeErrorCannotEscape(ch, pos) == Raise("EscapeError", "Cannot escape", ch, pos)
EscapeErrorInvalidChar(pos) == Raise("EscapeError", "Invalid character", Backslash, pos)

\* ---------------------------------------------------------- _make_word
\* A slip: the escaped character is cut out and the backslash kept.
DropEscaped(word, loc) == Slice(word, 0, loc + 1) \o Slice(word, loc + 2, Len(word))

\* word[:backslash_loc] + word[backslash_loc + 1:]
DropAt(word, loc) == Slice(word, 0, loc) \o Slice(word, loc + 1, Len(word))

\* A slip: the search resumes at the backslash an escape just produced, which
\* is then read again as the start of an escape.
AfterBackslashReread(loc) == loc

\* Where the search for the next backslash resumes after an escape at loc
\* has been decoded (the escaped character now sits at loc).
AfterBackslash(loc) == loc + 1
AfterQuote(loc) == loc

\* The index reported by each of the two escape errors.
CannotEscapePos(begin, next_idx) == begin + next_idx
InvalidCharPos(begin, backslash_loc) == begin + backslash_loc

RECURSIVE make_word_loop(_, _, _)
make_word_loop(word, backslash_loc, begin) ==
    IF backslash_loc = -1 THEN [err |-> NoError, word |-> word]
    ELSE LET next_idx == backslash_loc + 1 IN
         IF next_idx < Len(word)
         THEN LET next_char == At(word, next_idx) IN
              IF next_char = Backslash
              THEN LET w == DropAt(word, backslash_loc)
                   IN  make_word_loop(w, find(w, Backslash, AfterBackslash(backslash_loc)), begin)
              ELSE IF next_char = Quote
              THEN LET w == DropAt(word, backslash_loc)
                   IN  make_word_loop(w, find(w, Backslash, AfterQuote(backslash_loc)), begin)
              ELSE [err |-> EscapeErrorCannotEscape(next_char, CannotEscapePos(begin, next_idx)),
                    word |-> word]
         ELSE [err |-> EscapeErrorInvalidChar(InvalidCharPos(begin, backslash_loc)),
               word |-> word]

make_word(string, begin, end) ==
    LET word == Slice(string, begin, end)
    IN  make_word_loop(word, find(word, Backslash, 0), begin)

\* ------------------------------------------------- _accept_word_char
\* A slip (or another design): a quote counts as escaped when an odd number
\* of backslashes stands right before it.
EscapedAtByParity(string, i) ==
    Cardinality({n \in 1..i : \A j \in 1..n : At(string, i - j) = Backslash}) % 2 = 1

\* A quote at index i counts as escaped when the character before it is a
\* backslash.
EscapedAt(string, i) == i - 1 >= 0 /\ At(string, i - 1) = Backslash

\* A slip: only whitespace is refused, a bare quote is accepted.
accept_word_char_any_quote(string, i) ==
    IF isspace(At(string, i))
    THEN [err |-> InvalidAcceptError(At(string, i), i), i |-> i]
    ELSE [err |-> NoError, i |-> i + 1]

accept_word_char(string, i) ==
    IF isspace(At(string, i)) \/ (At(string, i) = Quote /\ ~EscapedAt(string, i))
    THEN [err |-> InvalidAcceptError(At(string, i), i), i |-> i]
    ELSE [err |-> NoError, i |-> i + 1]

\* ---------------------------------------------- the three state steps
\* Each returns what the call leaves behind: the exception raised (or
\* NoError), the returned (state, i, begin_word), and the result list, which
\* the call appends to in place.  When it raises, split's state, i and
\* begin_word keep their values.
Returns(state, i, begin_word, result) ==
    [err |-> NoError, state |-> state, i |-> i, begin_word |-> begin_word,
     result |-> result]
Raises(err, state, i, begin_word, result) ==
    [err |-> err, state |-> state, i |-> i, begin_word |-> begin_word,
     result |-> result]

\* A slip: the opening quote is not passed over.
process_space_state_stays_at_quote(string, i) ==
    IF At(string, i) = Quote THEN [state |-> "QUOTES", i |-> i]
    ELSE IF ~isspace(At(string, i)) THEN [state |-> "WORD", i |-> i]
    ELSE [state |-> "SPACE", i |-> i + 1]

process_space_state(string, i) ==
    IF At(string, i) = Quote THEN [state |-> "QUOTES", i |-> i + 1]
    ELSE IF ~isspace(At(string, i)) THEN [state |-> "WORD", i |-> i]
    ELSE [state |-> "SPACE", i |-> i + 1]

\* A slip: the span is opened without the word's first character being
\* passed, so that character is read a third time.
process_word_state_opens_in_place(string, i, begin_word, result) ==
    IF begin_word = None
    THEN Returns("WORD", i, i, result)
    ELSE IF isspace(At(string, i))
    THEN LET m == make_word(string, begin_word, i) IN
         IF m.err # NoError THEN Raises(m.err, "WORD", i, begin_word, result)
         ELSE Returns("SPACE", i, None, Append(result, m.word))
    ELSE LET a == accept_word_char(string, i) IN
         IF a.err # NoError THEN Raises(a.err, "WORD", i, begin_word, result)
         ELSE Returns("WORD", a.i, begin_word, result)

\* A slip: the span is left open when whitespace closes a word.
process_word_state_keeps_span(string, i, begin_word, result) ==
    IF begin_word = None
    THEN LET a == accept_word_char(string, i) IN
         IF a.err # NoError THEN Raises(a.err, "WORD", i, begin_word, result)
         ELSE Returns("WORD", a.i, i, result)
    ELSE IF isspace(At(string, i))
    THEN LET m == make_word(string, begin_word, i) IN
         IF m.err # NoError THEN Raises(m.err, "WORD", i, begin_word, result)
         ELSE Returns("SPACE", i, begin_word, Append(result, m.word))
    ELSE LET a == accept_word_char(string, i) IN
         IF a.err # NoError THEN Raises(a.err, "WORD", i, begin_word, result)
         ELSE Returns("WORD", a.i, begin_word, result)

process_word_state(string, i, begin_word, result) ==
    IF begin_word = None
    THEN LET a == accept_word_char(string, i) IN
         IF a.err # NoError THEN Raises(a.err, "WORD", i, begin_word, result)
         ELSE Returns("WORD", a.i, i, result)
    ELSE IF isspace(At(string, i))
    THEN LET m == make_word(string, begin_word, i) IN
         IF m.err # NoError THEN Raises(m.err, "WORD", i, begin_word, result)
         ELSE Returns("SPACE", i, None, Append(result, m.word))
    ELSE LET a == accept_word_char(string, i) IN
         IF a.err # NoError THEN Raises(a.err, "WORD", i, begin_word, result)
         ELSE Returns("WORD", a.i, begin_word, result)

\* A slip: the character after the next one is the one tested.
SpaceMissingOneTooFar(string, i) ==
    LET next_idx == i + 2
    IN  next_idx < Len(string) /\ ~isspace(At(string, next_idx))

\* "Except if the next character is not a space."
SpaceMissing(string, i) ==
    LET next_idx == i + 1
    IN  next_idx < Len(string) /\ ~isspace(At(string, next_idx))

\* A slip: every quote ends the quoted region, an escaped one too.
EndOfQuoteEscapedToo(string, i) == At(string, i) = Quote

\* "End the quote if the end of quote char is found. If it is escaped,
\* ignore it."
EndOfQuote(string, i) == At(string, i) = Quote /\ ~EscapedAt(string, i)

\* A slip: the span is opened one character after the first of the body.
process_quote_state_late_span(string, i, begin_word, result) ==
    IF begin_word = None
    THEN IF At(string, i) = Quote
         THEN LET r == Append(result, <<>>) IN
              IF SpaceMissing(string, i)
              THEN Raises(QuoteErrorNoSpace, "QUOTES", i, begin_word, r)
              ELSE Returns("SPACE", i + 1, None, r)
         ELSE Returns("QUOTES", i + 1, i + 1, result)
    ELSE IF EndOfQuote(string, i)
    THEN LET m == make_word(string, begin_word, i) IN
         IF m.err # NoError THEN Raises(m.err, "QUOTES", i, begin_word, result)
         ELSE LET r == Append(result, m.word) IN
              IF SpaceMissing(string, i)
              THEN Raises(QuoteErrorNoSpace, "QUOTES", i, begin_word, r)
              ELSE Returns("SPACE", i + 1, None, r)
    ELSE Returns("QUOTES", i + 1, begin_word, result)

\* A slip: the empty quoted token is closed without being added.
process_quote_state_no_empty_word(string, i, begin_word, result) ==
    IF begin_word = None
    THEN IF At(string, i) = Quote
         THEN IF SpaceMissing(string, i)
              THEN Raises(QuoteErrorNoSpace, "QUOTES", i, begin_word, result)
              ELSE Returns("SPACE", i + 1, None, result)
         ELSE Returns("QUOTES", i + 1, i, result)
    ELSE IF EndOfQuote(string, i)
    THEN LET m == make_word(string, begin_word, i) IN
         IF m.err # NoError THEN Raises(m.err, "QUOTES", i, begin_word, result)
         ELSE LET r == Append(result, m.word) IN
              IF SpaceMissing(string, i)
              THEN Raises(QuoteErrorNoSpace, "QUOTES", i, begin_word, r)
              ELSE Returns("SPACE", i + 1, None, r)
    ELSE Returns("QUOTES", i + 1, begin_word, result)

process_quote_state(string, i, begin_word, result) ==
    IF begin_word = None
    THEN IF At(string, i) = Quote
         THEN LET r == Append(result, <<>>) IN
              IF SpaceMissing(string, i)
              THEN Raises(QuoteErrorNoSpace, "QUOTES", i, begin_word, r)
              ELSE Returns("SPACE", i + 1, None, r)
         ELSE Returns("QUOTES", i + 1, i, result)
    ELSE IF EndOfQuote(string, i)
    THEN LET m == make_word(string, begin_word, i) IN
         IF m.err # NoError THEN Raises(m.err, "QUOTES", i, begin_word, result)
         ELSE LET r == Append(result, m.word) IN
              IF SpaceMissing(string, i)
              THEN Raises(QuoteErrorNoSpace, "QUOTES", i, begin_word, r)
              ELSE Returns("SPACE", i + 1, None, r)
    ELSE Returns("QUOTES", i + 1, begin_word, result)

\* A slip: a word still open when the line ends is not added.
split_end_drops_open_word(string, state, i, begin_word, result) ==
    IF state = "QUOTES"
    THEN Raises(QuoteErrorNotClosed, state, i, begin_word, result)
    ELSE Returns(state, i, begin_word, result)

\* A slip: an open quote is an error only once a body character was read.
split_end_needs_body(string, state, i, begin_word, result) ==
    IF state = "QUOTES" /\ begin_word # None
    THEN Raises(QuoteErrorNotClosed, state, i, begin_word, result)
    ELSE IF begin_word # None
    THEN LET m == make_word(string, begin_word, i) IN
         IF m.err # NoError THEN Raises(m.err, state, i, begin_word, result)
         ELSE Returns(state, i, begin_word, Append(result, m.word))
    ELSE Returns(state, i, begin_word, result)

\* A slip: the test for an open span is left out, and string[None:i], the
\* whole line so far, is decoded as a word.
split_end_always_flushes(string, state, i, begin_word, result) ==
    IF state = "QUOTES"
    THEN Raises(QuoteErrorNotClosed, state, i, begin_word, result)
    ELSE LET m == make_word(string, IF begin_word = None THEN 0 ELSE begin_word, i) IN
         IF m.err # NoError THEN Raises(m.err, state, i, begin_word, result)
         ELSE Returns(state, i, begin_word, Append(result, m.word))

\* A slip: the open span is decoded before the open quote is looked for.
split_end_decodes_first(string, state, i, begin_word, result) ==
    LET m == IF begin_word # None THEN make_word(string, begin_word, i)
             ELSE [err |-> NoError, word |-> <<>>]
    IN  IF m.err # NoError THEN Raises(m.err, state, i, begin_word, result)
        ELSE IF state = "QUOTES"
        THEN Raises(QuoteErrorNotClosed, state, i, begin_word, result)
        ELSE IF begin_word # None
        THEN Returns(state, i, begin_word, Append(result, m.word))
        ELSE Returns(state, i, begin_word, result)

\* The code of split after the scan loop.
split_end(string, state, i, begin_word, result) ==
    IF state = "QUOTES"
    THEN Raises(QuoteErrorNotClosed, state, i, begin_word, result)
    ELSE IF begin_word # None
    THEN LET m == make_word(string, begin_word, i) IN
         IF m.err # NoError THEN Raises(m.err, state, i, begin_word, result)
         ELSE Returns(state, i, begin_word, Append(result, m.word))
    ELSE Returns(state, i, begin_word, result)

\* --------------------------------------------------------------- split
\* One iteration of "while i < len(string)".
split_step(string, c) ==
    IF c.state = "SPACE"
    THEN LET s == process_space_state(string, c.i)
         IN  Returns(s.state, s.i, c.begin_word, c.result)
    ELSE IF c.state = "WORD"
    THEN process_word_state(string, c.i, c.begin_word, c.result)
    ELSE process_quote_state(string, c.i, c.begin_word, c.result)

RECURSIVE split_loop(_, _)
split_loop(string, c) ==
    IF c.err # NoError THEN c
    ELSE IF c.i < Len(string) THEN split_loop(string, split_step(string, c))
    ELSE split_end(string, c.state, c.i, c.begin_word, c.result)

\* A slip: the words gathered before the exception are handed over with it.
split_returns_partial(string) ==
    LET c == split_loop(string, Returns("SPACE", 0, None, <<>>))
    IN  [err |-> c.err, value |-> c.result]

\* What a call of split gives its caller: the list, or the exception alone.
split(string) ==
    LET c == split_loop(string, Returns("SPACE", 0, None, <<>>))
    IN  IF c.err # NoError THEN [err |-> c.err, value |-> <<>>]
        ELSE [err |-> NoError, value |-> c.result]

\* --------------------------------------------------- the state machine
VARIABLES
    string,      \* the argument of split
    state,       \* "SPACE", "WORD" or "QUOTES"
    i,           \* the cursor
    begin_word,  \* where the open span began, or None
    result,      \* the words appended so far
    pc,          \* "loop": in the scan loop; "returned"; "raised"
    error        \* the exception that ended the call, or NoError

vars == <<string, state, i, begin_word, result, pc, error>>

Init ==
    /\ string \in Lines(MaxLen)
    /\ state = "SPACE"
    /\ i = 0
    /\ begin_word = None
    /\ result = <<>>
    /\ pc = "loop"
    /\ error = NoError

\* The assignment of a step's outcome to split's locals, or its exception
\* leaving split.
Take(c) ==
    /\ result' = c.result
    /\ error' = c.err
    /\ IF c.err # NoError
       THEN pc' = "raised" /\ UNCHANGED <<state, i, begin_word>>
       ELSE /\ pc' = pc
            /\ state' = c.state
            /\ i' = c.i
            /\ begin_word' = c.begin_word
    /\ UNCHANGED string

SpaceState ==
    /\ pc = "loop" /\ i < Len(string) /\ state = "SPACE"
    /\ LET s == process_space_state(string, i)
       IN  Take(Returns(s.state, s.i, begin_word, result))

WordState ==
    /\ pc = "loop" /\ i < Len(string) /\ state = "WORD"
    /\ Take(process_word_state(string, i, begin_word, result))

QuoteState ==
    /\ pc = "loop" /\ i < Len(string) /\ state = "QUOTES"
    /\ Take(process_quote_state(string, i, begin_word, result))

Finish ==
    /\ pc = "loop" /\ ~(i < Len(string))
    /\ LET c == split_end(string, state, i, begin_word, result) IN
       /\ result' = c.result
       /\ error' = c.err
       /\ pc' = IF c.err # NoError THEN "raised" ELSE "returned"
    /\ UNCHANGED <<string, state, i, begin_word>>

Next == SpaceState \/ WordState \/ QuoteState \/ Finish

Spec == Init /\ [][Next]_vars

\* The call has ended and handed its caller a list.
Returned == pc = "returned"
\* The call has ended with an exception.
Raised == pc = "raised"

\* ------------------------------------------------ properties: decoding
\* The yardstick of the decoding properties: one left-to-right scan of a raw
\* slice, as the design describes the unescaper.  At a backslash the next
\* character decides: a backslash or a quote is emitted and both characters
\* are passed; anything else is an illegal escape (at the offset of that
\* character); nothing at all is a dangling escape (at the offset of the
\* backslash).  Any other character is copied.
RECURSIVE Scan(_, _, _)
Scan(raw, k, out) ==
    IF k >= Len(raw) THEN [kind |-> "ok", at |-> -1, word |-> out]
    ELSE IF At(raw, k) # Backslash THEN Scan(raw, k + 1, Append(out, At(raw, k)))
    ELSE IF k + 1 >= Len(raw) THEN [kind |-> "dangling", at |-> k, word |-> out]
    ELSE IF At(raw, k + 1) \in {Backslash, Quote}
         THEN Scan(raw, k + 2, Append(out, At(raw, k + 1)))
    ELSE [kind |-> "illegal", at |-> k + 1, word |-> out]

LeftToRight(raw) == Scan(raw, 0, <<>>)

IllegalEscape(e) == e.cls = "EscapeError" /\ e.msg = "Cannot escape"
DanglingEscape(e) == e.cls = "EscapeError" /\ e.msg = "Invalid character"
UnterminatedQuote(e) == e = QuoteErrorNotClosed
MissingSpaceAfterQuote(e) == e = QuoteErrorNoSpace
UnexpectedQuoteInWord(e) == e.cls = "InvalidAcceptError"

\* Every slice string[b:e] of the line.
Spans == {se \in (0..Len(string)) \X (0..Len(string)) : se[1] <= se[2]}

\* C1: when the call ends with an escape error, the index the error carries
\* is the index, in the line as given, of the offending character: the
\* character after the backslash for an illegal escape, the backslash for a
\* dangling one.  (The span being decoded is string[begin_word:i].)
EscapePosIsOriginalIndex ==
    (Raised /\ error.cls = "EscapeError") =>
        LET r == LeftToRight(Slice(string, begin_word, i))
        IN  /\ r.kind # "ok"
            /\ error.pos = begin_word + r.at

\* C2: on every slice of the line that _make_word decodes, it returns what
\* the left-to-right scan returns.
DecodeIsLeftToRightScan ==
    (pc # "loop") =>
        \A se \in Spans :
            LET m == make_word(string, se[1], se[2])
                r == LeftToRight(Slice(string, se[1], se[2]))
            IN  m.err = NoError => (r.kind = "ok" /\ m.word = r.word)

\* A call that returned a word decoded from a backslash-backslash pair
\* followed by a backslash-quote pair.
DecodedBothEscapes ==
    /\ Returned
    /\ string = <<Backslash, Backslash, Backslash, Quote>>
    /\ result = << <<Backslash, Quote>> >>

\* C10: decoding a slice fails in exactly two cases, told apart by the
\* left-to-right scan: an escape-starting backslash before a character that
\* is neither backslash nor quote (illegal escape), and an escape-starting
\* backslash that ends the slice (dangling escape).
DecodeFailsInTwoCases ==
    (pc # "loop") =>
        \A se \in Spans :
            LET m == make_word(string, se[1], se[2])
                r == LeftToRight(Slice(string, se[1], se[2]))
            IN  /\ (r.kind = "ok") <=> (m.err = NoError)
                /\ (r.kind = "illegal") <=> IllegalEscape(m.err)
                /\ (r.kind = "dangling") <=> DanglingEscape(m.err)

\* A call that ended in an illegal escape, on a line whose slices show the
\* other two cases as well: a dangling escape and a clean decode.
AllDecodeCasesSeen ==
    /\ Raised /\ IllegalEscape(error)
    /\ string = <<Backslash, Quote, Backslash, "a">>
    /\ DanglingEscape(make_word(string, 0, 3).err)
    /\ make_word(string, 0, 2) = [err |-> NoError, word |-> <<Quote>>]

\* ---------------------------------------------- properties: whole lines
\* The words of at least n and at most MaxWordLen letters, and the
\* sequences of at most MaxWords of them.
Words(n) == UNION {[1..k -> Letters] : k \in n..MaxWordLen}
WordSeqs(n) == UNION {[1..k -> Words(n)] : k \in 0..MaxWords}

\* ' '.join(words)
RECURSIVE Join(_)
Join(words) ==
    IF words = <<>> THEN <<>>
    ELSE IF Len(words) = 1 THEN words[1]
    ELSE words[1] \o <<" ">> \o Join(Tail(words))

\* The line holds letters and single-space characters only.
PlainLine == \A k \in 1..Len(string) : string[k] \in Letters \cup {" "}

\* C3, as stated: whatever words (of any length, none included) are joined
\* with single spaces, split gives the words back.
RoundTripAnyWords ==
    (pc # "loop" /\ PlainLine) =>
        \A words \in WordSeqs(0) :
            Join(words) = string => (Returned /\ result = words)

\* C3, amended: whatever non-empty words are joined with single spaces,
\* split gives the words back.
RoundTripNonEmptyWords ==
    (pc # "loop" /\ PlainLine) =>
        \A words \in WordSeqs(1) :
            Join(words) = string => (Returned /\ result = words)

\* A call that returned two joined words of different lengths.
RoundTripDone ==
    /\ Returned
    /\ result = << <<"a">>, <<"a", "a">> >>
    /\ string = Join(result)

\* s[:p] + w + s[p:]
InsertAt(s, p, w) == Slice(s, 0, p) \o <<w>> \o Slice(s, p, Len(s))

\* C4: when split succeeds on a line, it succeeds with the same list on the
\* line with one more whitespace character at its start, at its end, or
\* before or after a whitespace character met between tokens (one the
\* scanner reads in SPACE state).
WhitespaceIdempotence ==
    /\ Returned =>
           \A p \in {0, Len(string)}, w \in Whitespace :
               split(InsertAt(string, p, w)) = [err |-> NoError, value |-> result]
    /\ (pc = "loop" /\ state = "SPACE" /\ i < Len(string) /\ isspace(At(string, i))) =>
           LET r == split(string) IN
           r.err = NoError =>
               \A p \in {i, i + 1}, w \in Whitespace :
                   split(InsertAt(string, p, w)) = r

\* A call that returned two words from a line with whitespace before them,
\* after them and twice between them.
PaddedLineSplit ==
    /\ Returned
    /\ string = <<" ", "a", " ", " ", "a", " ">>
    /\ result = << <<"a">>, <<"a">> >>

\* string[p] opens a quoted region that string[q] closes: both are quotes,
\* the body between them holds neither a quote nor a backslash, the region
\* begins the line or follows whitespace, and it ends the line or is
\* followed by whitespace.
RegionAt(p, q) ==
    /\ p < q
    /\ At(string, p) = Quote /\ At(string, q) = Quote
    /\ \A k \in (p + 1)..(q - 1) : At(string, k) \notin {Quote, Backslash}
    /\ p = 0 \/ isspace(At(string, p - 1))
    /\ q + 1 = Len(string) \/ isspace(At(string, q + 1))

\* The line before the region, its body, and the line after it.
Before(p) == Slice(string, 0, p)
Body(p, q) == Slice(string, p + 1, q)
After(q) == Slice(string, q + 1, Len(string))

\* The call ended with the list made of the words before the region, the
\* body as one word, and the words after the region.
GroupedAt(p, q) ==
    LET a == split(Before(p))
        b == split(After(q))
    IN  (a.err = NoError /\ b.err = NoError) =>
            (Returned /\ result = a.value \o <<Body(p, q)>> \o b.value)

Indices == 0..(Len(string) - 1)

\* C5: a quoted region with a non-empty body free of quotes and backslashes,
\* opening where a token may start (the line before it splits without
\* error) and followed by whitespace or nothing, gives one word, the body as
\* it stands, between the words before it and the words after it.
QuoteGrouping ==
    (pc # "loop") =>
        \A p \in Indices, q \in Indices :
            (p + 1 < q /\ RegionAt(p, q)) => GroupedAt(p, q)

\* A call that returned a quoted body with whitespace inside, between two
\* bare words.
QuotedBodyGrouped ==
    /\ Returned
    /\ string = <<"a", " ", Quote, " ", Quote, " ">>
    /\ result = << <<"a">>, <<" ">> >>

\* The step that reads the second quote of an empty quoted token that is
\* followed by whitespace or nothing.
EmptyTokenStep ==
    /\ pc = "loop" /\ i < Len(string)
    /\ state = "QUOTES" /\ begin_word = None
    /\ At(string, i) = Quote
    /\ i + 1 = Len(string) \/ isspace(At(string, i + 1))

\* C6: two adjacent quotes where a token may start, followed by whitespace
\* or nothing, give one empty word between the words before them and the
\* words after them, wherever the pair stands in the line; and the step that
\* reads the second quote appends that word and leaves the scanner in SPACE
\* state.
EmptyQuotedToken ==
    /\ [](pc # "loop" =>
            \A p \in Indices :
                (p + 1 \in Indices /\ RegionAt(p, p + 1)) => GroupedAt(p, p + 1))
    /\ [][EmptyTokenStep =>
             /\ pc' = "loop" /\ state' = "SPACE" /\ begin_word' = None
             /\ i' = i + 1
             /\ result' = Append(result, <<>>)]_vars

\* A call that returned the empty word of a pair of quotes in the middle of
\* the line.
EmptyTokenInTheMiddle ==
    /\ Returned
    /\ string = <<"a", " ", Quote, Quote, " ", "a">>
    /\ result = << <<"a">>, <<>>, <<"a">> >>

\* ------------------------------------------------- properties: errors
\* C7: the call fails with the unterminated-quote error exactly when the
\* scan reached the end of the line in QUOTES state, a body character read
\* or not; no such error is raised before the end or in another state.
UnterminatedQuoteIffEndInQuotes ==
    /\ pc = "loop" => ~UnterminatedQuote(error)
    /\ pc # "loop" =>
           (UnterminatedQuote(error) <=> (state = "QUOTES" /\ i = Len(string)))

\* A call that failed on a line whose last character is a lone opening
\* quote.
LoneQuoteUnterminated ==
    /\ Raised /\ UnterminatedQuote(error)
    /\ string = <<"a", " ", Quote>>
    /\ begin_word = None

\* The scanner is about to read, in a bare word with an open span, a quote
\* that no backslash precedes.
BareQuoteInWord ==
    /\ pc = "loop" /\ i < Len(string)
    /\ state = "WORD" /\ begin_word # None
    /\ At(string, i) = Quote
    /\ At(string, i - 1) # Backslash

\* C8: a quote that no backslash precedes, read in a bare word with an open
\* span, ends the call with the unexpected-quote error; and QUOTES state is
\* entered from SPACE state only.
QuoteInWordFails ==
    [][/\ BareQuoteInWord =>
              (pc' = "raised" /\ UnexpectedQuoteInWord(error') /\ error'.pos = i)
       /\ (state' = "QUOTES" /\ state # "QUOTES") =>
              (state = "SPACE" /\ At(string, i) = Quote)]_vars

\* A call that failed at a quote in the middle of a bare word.
QuoteInWordRaised ==
    /\ Raised /\ UnexpectedQuoteInWord(error)
    /\ string = <<"a", Quote, "a">>
    /\ i = 1 /\ begin_word = 0

\* The scanner is about to read the quote that closes a quoted token: the
\* second quote of an empty token, or a quote no backslash precedes after a
\* body.
ClosingQuote ==
    /\ pc = "loop" /\ i < Len(string)
    /\ state = "QUOTES"
    /\ At(string, i) = Quote
    /\ begin_word = None \/ At(string, i - 1) # Backslash

NextIsNoSpace == i + 1 < Len(string) /\ ~isspace(At(string, i + 1))

\* What follows the closing quote decides: the missing-space error exactly
\* when a next character exists and is not whitespace, and otherwise the scan
\* goes on in SPACE state.
SpaceRuleApplied ==
    /\ (pc' = "raised" /\ MissingSpaceAfterQuote(error')) <=> NextIsNoSpace
    /\ ~NextIsNoSpace => (pc' = "loop" /\ state' = "SPACE" /\ error' = NoError)

\* C9, as stated: whenever a quoted token closes, what follows the closing
\* quote decides.
SpaceAfterQuoteDecides == [][ClosingQuote => SpaceRuleApplied]_vars

\* The body the closing quote ends (empty for the empty token).
ClosedBody == IF begin_word = None THEN <<>> ELSE Slice(string, begin_word, i)

\* C9, amended: whenever a quoted token closes and its body decodes, what
\* follows the closing quote decides; when its body does not decode, the
\* call fails with the escape error, whatever follows the quote.
SpaceAfterQuoteDecidesIfDecoded ==
    [][ClosingQuote =>
          IF LeftToRight(ClosedBody).kind = "ok"
          THEN SpaceRuleApplied
          ELSE pc' = "raised" /\ error'.cls = "EscapeError"]_vars

\* A call that failed for want of a space after a closing quote.
MissingSpaceRaised ==
    /\ Raised /\ MissingSpaceAfterQuote(error)
    /\ string = <<Quote, "a", Quote, "a">>
    /\ i = 2

\* ------------------------------------------- properties: the whole call
\* C11: an error ends the call: every step is taken in the loop with no
\* error raised so far, so nothing is scanned after an error; and the caller
\* of a call that raised gets the error and no word, not even one appended
\* earlier or in the raising step itself.
ErrorsAreTerminal ==
    /\ [][pc = "loop" /\ error = NoError]_vars
    /\ [](error # NoError <=> Raised)
    /\ [](Raised => split(string) = [err |-> error, value |-> <<>>])

\* A call that appended a quoted word and raised the missing-space error in
\* the same step.
RaisedAfterAppend ==
    /\ Raised /\ MissingSpaceAfterQuote(error)
    /\ string = <<"a", " ", Quote, "a", Quote, "a">>
    /\ result = << <<"a">>, <<"a">> >>

\* C12: the empty line and every line of whitespace only split to the empty
\* list, without error.
BlankLineSplitsToNothing ==
    (pc # "loop" /\ \A k \in 1..Len(string) : isspace(string[k])) =>
        /\ Returned /\ result = <<>>
        /\ \A line \in [1..Len(string) -> Whitespace] :
               split(line) = [err |-> NoError, value |-> <<>>]

\* A call that returned from a line of two spaces.
BlankLineDone ==
    /\ Returned
    /\ string = <<" ", " ">>
    /\ result = <<>>

\* The scanner is about to read, in a quoted region, a quote that follows
\* an escaped backslash: the body so far decodes, with every backslash in a
\* pair, and ends in two backslashes.
QuoteAfterEscapedBackslash ==
    /\ pc = "loop" /\ i < Len(string)
    /\ state = "QUOTES" /\ begin_word # None
    /\ At(string, i) = Quote
    /\ begin_word <= i - 2
    /\ At(string, i - 1) = Backslash /\ At(string, i - 2) = Backslash
    /\ LeftToRight(Slice(string, begin_word, i)).kind = "ok"

\* C13: in a quoted region, a quote that follows an escaped backslash closes
\* the region, and the word appended ends with that one backslash.
EscapedBackslashThenQuoteCloses ==
    [][QuoteAfterEscapedBackslash =>
          /\ result' = Append(result, LeftToRight(Slice(string, begin_word, i)).word)
          /\ result'[Len(result')][Len(result'[Len(result')])] = Backslash]_vars

\* ------------------------------------------------ properties: the scan
\* The scanner is about to read a quote with a span open, in a bare word or
\* in a quoted region.
QuoteInOpenSpan ==
    /\ pc = "loop" /\ i < Len(string)
    /\ state \in {"WORD", "QUOTES"} /\ begin_word # None
    /\ At(string, i) = Quote

\* The step passes over the character as over any other of the span.
PassedOver ==
    /\ pc' = "loop" /\ state' = state
    /\ i' = i + 1
    /\ begin_word' = begin_word /\ result' = result

\* C14: with a span open, a quote is passed over (legal in a bare word, not
\* closing in a quoted region) exactly when the one character before it is a
\* backslash, however many backslashes stand before that one.
SingleCharacterLookback ==
    [][QuoteInOpenSpan =>
          (PassedOver <=> (i >= 1 /\ At(string, i - 1) = Backslash))]_vars

\* A quoted region still open after a quote that follows two backslashes.
OpenAfterTwoBackslashes ==
    /\ pc = "loop"
    /\ string = <<Quote, Backslash, Backslash, Quote, "a">>
    /\ state = "QUOTES" /\ begin_word = 1 /\ i = 4

\* C15: the span marker is unset in SPACE state; when set, the state is
\* WORD or QUOTES and the span began before the cursor; it is unset on entry
\* to WORD or QUOTES and set by the step that reads the first character of
\* the span.  In WORD state it is unset exactly when the cursor is still at
\* the word's first character (at the line's start or after whitespace).
PendingSpan ==
    /\ [](/\ state = "SPACE" => begin_word = None
          /\ begin_word # None =>
                (state \in {"WORD", "QUOTES"} /\ 0 <= begin_word /\ begin_word < i)
          /\ state = "WORD" =>
                (begin_word = None <=> (i = 0 \/ isspace(At(string, i - 1))))
          /\ (state = "QUOTES" /\ begin_word = None) => At(string, i - 1) = Quote
          /\ (state = "QUOTES" /\ begin_word # None) => At(string, begin_word - 1) = Quote)
    /\ [][/\ (state' # state /\ state' \in {"WORD", "QUOTES"}) => begin_word' = None
          /\ (state' = state /\ state \in {"WORD", "QUOTES"} /\ i' = i + 1) =>
                begin_word' # None]_vars

\* A bare word and a quoted region, each with its span open.
SpanOpen ==
    /\ pc = "loop"
    /\ string = <<"a", "a", " ", Quote, "a", "a">>
    /\ state = "QUOTES" /\ begin_word = 4 /\ i = 5
    /\ result = << <<"a", "a">> >>

\* The locals of split after the step, as the next iteration finds them.
After_step ==
    Returns(state', i', begin_word', result')

\* C16: over every transition of the scan the cursor stays within the line
\* and never moves back; it moves by one, or not at all, and not at all only
\* from SPACE to WORD (at a character that is neither whitespace nor a quote)
\* and from WORD to SPACE (at the whitespace that closes a word); after such
\* a transition the next one moves the cursor by one.
CursorMonotone ==
    [][pc' = "loop" =>
          /\ 0 <= i /\ i <= i' /\ i' <= Len(string)
          /\ i' = i \/ i' = i + 1
          /\ i' = i =>
                /\ \/ /\ state = "SPACE" /\ state' = "WORD"
                       /\ ~isspace(At(string, i)) /\ At(string, i) # Quote
                   \/ /\ state = "WORD" /\ state' = "SPACE"
                       /\ isspace(At(string, i))
                /\ LET c == split_step(string, After_step)
                   IN  c.err = NoError /\ c.i = i' + 1]_vars

\* The scanner back in SPACE state at the whitespace that closed a word,
\* after both kinds of transition that keep the cursor.
WordClosedAtWhitespace ==
    /\ pc = "loop"
    /\ string = <<"a", " ", "a">>
    /\ state = "SPACE" /\ i = 1
    /\ result = << <<"a">> >>

\* The number of iterations of the scan loop on a line: the calls of the
\* _process_*_state functions, one that raises included.
RECURSIVE CountTransitions(_, _, _)
CountTransitions(line, c, n) ==
    IF c.err # NoError \/ ~(c.i < Len(line)) THEN n
    ELSE CountTransitions(line, split_step(line, c), n + 1)

Transitions(line) == CountTransitions(line, Returns("SPACE", 0, None, <<>>), 0)

\* The character under the cursor is being read for the second time: a
\* word's first character after SPACE state handed it over, or whitespace in
\* SPACE state (which WORD state may have handed over).
SecondLook ==
    /\ pc = "loop"
    /\ \/ state = "WORD" /\ begin_word = None
       \/ state = "SPACE" /\ i < Len(string) /\ isspace(At(string, i))

\* The transitions the scan loop has left at most: two for every character
\* from the cursor on, less one for a character that was read once.
LooksLeft == 2 * (Len(string) - i) - (IF SecondLook THEN 1 ELSE 0)

\* The iteration the loop is about to make does not leave split where it
\* is: it raises, or it changes state, cursor or span.
IterationMoves ==
    LET c == split_step(string, Returns(state, i, begin_word, result))
    IN  c.err # NoError \/ <<c.state, c.i, c.begin_word>> # <<state, i, begin_word>>

\* C17: every call ends, with a list or with an error: no iteration leaves
\* split where it is, every transition of the loop uses up at least one of
\* the at most 2 * len(string) looks left, the code after the loop ends the
\* call, and so the loop of an ended call made at most 2 * len(string)
\* transitions.
Terminates ==
    /\ []((pc = "loop" /\ i < Len(string)) => IterationMoves)
    /\ [](0 <= LooksLeft /\ LooksLeft <= 2 * Len(string))
    /\ [][/\ pc' = "loop" => LooksLeft' < LooksLeft
          /\ i = Len(string) => pc' # "loop"]_vars
    /\ [](pc # "loop" => (Returned \/ Raised))
    /\ [](pc # "loop" => Transitions(string) <= 2 * Len(string))

\* A call that returned after two transitions for every character.
TwoTransitionsEach ==
    /\ Returned
    /\ string = <<"a", " ", "a">>
    /\ Transitions(string) = 2 * Len(string)

\* ------------------------------------------- properties: spans and words
\* The step ends a quoted region that has a body: at a character of the
\* line the scanner leaves QUOTES state, or the call raises.
QuotedBodyCloses ==
    /\ pc = "loop" /\ i < Len(string)
    /\ state = "QUOTES" /\ begin_word # None
    /\ state' # "QUOTES" \/ pc' = "raised"

\* C18: the body of a quoted region that closes does not end in a
\* backslash, and closing it never raises the dangling-escape error; that
\* error comes from a bare word only, closed by whitespace or by the end of
\* the line.
NoDanglingEscapeInQuotes ==
    /\ [][QuotedBodyCloses =>
             /\ At(string, i - 1) # Backslash
             /\ ~DanglingEscape(error')]_vars
    /\ []((Raised /\ DanglingEscape(error)) =>
             /\ state = "WORD" /\ begin_word # None
             /\ i = Len(string) \/ isspace(At(string, i)))

\* A call that raised the dangling-escape error at the whitespace that
\* closed a bare word, after a quoted word that closed without it.
DanglingInBareWord ==
    /\ Raised /\ DanglingEscape(error)
    /\ string = <<Quote, "a", Quote, " ", Backslash, " ">>
    /\ state = "WORD" /\ i = 5

\* The step is one that closes a span: whitespace or the end of the line
\* after a bare word, or a quote no backslash precedes after a quoted body.
SpanCloses ==
    /\ pc = "loop" /\ begin_word # None
    /\ \/ state = "WORD" /\ (i = Len(string) \/ isspace(At(string, i)))
       \/ /\ state = "QUOTES" /\ i < Len(string)
          /\ At(string, i) = Quote /\ At(string, i - 1) # Backslash

\* C19: an escape error is raised by a step that closes a span, and by no
\* other; so the end of the line in QUOTES state raises the unterminated
\* quote error and a bare quote in a word raises the unexpected-quote error,
\* whatever escapes the open span holds.
EscapeCheckDeferred ==
    [][/\ error'.cls = "EscapeError" => SpanCloses
       /\ (pc = "loop" /\ i = Len(string) /\ state = "QUOTES") =>
             UnterminatedQuote(error')
       /\ BareQuoteInWord => UnexpectedQuoteInWord(error')]_vars

\* A call that raised the unterminated-quote error on a line whose open
\* quoted body holds an illegal escape.
UnterminatedDespiteIllegalEscape ==
    /\ Raised /\ UnterminatedQuote(error)
    /\ string = <<Quote, Backslash, "a">>
    /\ LeftToRight(Slice(string, begin_word, i)).kind = "illegal"

\* Where the line holds an empty quoted token: two quotes where a token may
\* start (the line before them splits without error), followed by
\* whitespace or nothing.
EmptyTokens ==
    {p \in Indices : /\ p + 1 \in Indices
                     /\ RegionAt(p, p + 1)
                     /\ split(Before(p)).err = NoError}

\* C20: a word appended from a bare word is non-empty and holds no
\* whitespace, a word appended from a quoted body is non-empty, and the
\* empty word is appended by the step that reads the second of two adjacent
\* quotes only; the returned list holds as many empty words as the line
\* holds empty quoted tokens.
WordsNonEmpty ==
    /\ [][Len(result') = Len(result) + 1 =>
             LET w == result'[Len(result')] IN
             IF state = "WORD"
             THEN w # <<>> /\ \A k \in 1..Len(w) : ~isspace(w[k])
             ELSE IF begin_word # None
             THEN w # <<>>
             ELSE /\ w = <<>>
                  /\ state = "QUOTES"
                  /\ At(string, i) = Quote /\ At(string, i - 1) = Quote]_vars
    /\ [](Returned =>
             Cardinality({k \in 1..Len(result) : result[k] = <<>>})
                 = Cardinality(EmptyTokens))

\* A call that returned two empty words for two empty quoted tokens.
TwoEmptyWords ==
    /\ Returned
    /\ string = <<Quote, Quote, " ", Quote, Quote, " ">>
    /\ result = << <<>>, <<>> >>
    /\ Cardinality(EmptyTokens) = 2

====
